---- MODULE Spec2Model ----
(***************************************************************************)
(* Mak (TRC-Loop/Mak): the macro runner of src/src/main.py.                *)
(*                                                                         *)
(* Python strings are modelled as sequences of one-character strings, so   *)
(* that the regular expressions of the program (sanitize_name, the         *)
(* placeholder probe, the cd probe) and str.format are modelled by what    *)
(* they do to the characters.  <<>> is the empty string; None and "" are   *)
(* both falsy in the tests of run_macro (`not keybind`, `not name`) and    *)
(* are both modelled by <<>>.                                              *)
(***************************************************************************)
EXTENDS Integers, Sequences, FiniteSets, TLC

VARIABLES
    pc,                  \* position of the run inside run_macro
    shell,               \* the --shell option of the invocation
    SHELL_OUTPUT_MODE,   \* the module-level flag (main.py:48)
    temp_mode,           \* _temp_shell_output_mode
    data,                \* the data document returned by load_data()
    keybind,             \* run_macro's keybind (argument, then selection)
    name,                \* run_macro's name (argument, then selection, then sanitized)
    supplied,            \* the args the invocation was given (never changed)
    args,                \* run_macro's args, extended by the prompts
    macro,               \* the macro found at main.py:393
    arg_indices,         \* main.py:398
    prompt_idx,          \* idx of the prompt being shown (main.py:406)
    prompts,             \* the labels of the prompts shown so far, in order
    commands_to_execute, \* main.py:420
    stdout,              \* the strings handed to print_func, in order
    spawned,             \* the command strings handed to subprocess.run, in order
    returncode,          \* result.returncode of the sub-process
    outcome,             \* how the run ended ("running" until it ends)
    exit_code,           \* the exit status of the process once pc = "exit"
    sn_in,               \* sanitize_name: the input string
    sn_out,              \* sanitize_name(sn_in)
    sn_twice,            \* sanitize_name(sanitize_name(sn_in))
    op,                  \* the command that last rewrote or refused to rewrite the data
    data_before          \* the document that command loaded

vars == <<pc, shell, SHELL_OUTPUT_MODE, temp_mode, data, keybind, name, supplied,
          args, macro, arg_indices, prompt_idx, prompts, commands_to_execute,
          stdout, spawned, returncode, outcome, exit_code, sn_in, sn_out, sn_twice,
          op, data_before>>

runVars == <<pc, shell, SHELL_OUTPUT_MODE, temp_mode, data, keybind, name, supplied,
             args, macro, arg_indices, prompt_idx, prompts, commands_to_execute,
             stdout, spawned, returncode, outcome, exit_code>>

snVars == <<sn_in, sn_out, sn_twice>>

storeVars == <<op, data_before>>

----------------------------------------------------------------------------
(* Bounds of the model. *)

\* longest argument list an invocation supplies
MaxSupplied == 3

\* largest exit code of the sub-process
MaxReturnCode == 2

\* longest input string of sanitize_name
MaxNameLen == 3

----------------------------------------------------------------------------
(* Characters. *)

UpperCase == <<"A","B","C","D","E","F","G","H","I","J","K","L","M","N","O","P","Q","R","S","T","U","V","W","X","Y","Z">>
LowerCase == <<"a","b","c","d","e","f","g","h","i","j","k","l","m","n","o","p","q","r","s","t","u","v","w","x","y","z">>
DigitChars == <<"0","1","2","3","4","5","6","7","8","9">>

Range(s) == {s[i] : i \in 1..Len(s)}

IsUpper(c) == c \in Range(UpperCase)
IsLower(c) == c \in Range(LowerCase)
IsDigit(c) == c \in Range(DigitChars)

\* \s of the re module, restricted to the white space the model's strings hold
Whitespace == {" ", "\t", "\n"}

\* str.lower() on one character
ToLower(c) ==
    IF IsUpper(c) THEN LowerCase[CHOOSE i \in 1..Len(UpperCase) : UpperCase[i] = c]
    ELSE c

\* int() of one decimal digit
DigitVal(c) == (CHOOSE i \in 1..Len(DigitChars) : DigitChars[i] = c) - 1

\* int() of a string of decimal digits
RECURSIVE ParseInt(_)
ParseInt(ds) ==
    IF ds = <<>> THEN 0
    ELSE 10 * ParseInt(SubSeq(ds, 1, Len(ds) - 1)) + DigitVal(ds[Len(ds)])

----------------------------------------------------------------------------
(* sanitize_name, main.py:21-37 *)

IsSpaceOrUnderscore(c) == c \in {" ", "_"}

\* the rest of s after its leading run of space/underscore characters
RECURSIVE DropSpaceRun(_)
DropSpaceRun(s) ==
    IF s # <<>> /\ IsSpaceOrUnderscore(Head(s)) THEN DropSpaceRun(Tail(s)) ELSE s

\* re.sub(r'[ _]+', '-', name)
RECURSIVE ReplaceSpaceRuns(_)
ReplaceSpaceRuns(s) ==
    IF s = <<>> THEN <<>>
    ELSE IF IsSpaceOrUnderscore(Head(s)) THEN <<"-">> \o ReplaceSpaceRuns(DropSpaceRun(s))
    ELSE <<Head(s)>> \o ReplaceSpaceRuns(Tail(s))

IsNameChar(c) == IsUpper(c) \/ IsLower(c) \/ IsDigit(c) \/ c = "-"

\* re.sub(r'[^a-zA-Z0-9\-]', '', name)
RemoveInvalid(s) == SelectSeq(s, IsNameChar)

\* name.lower()
Lower(s) == [i \in 1..Len(s) |-> ToLower(s[i])]

IsSpaceUnderscoreOrHyphen(c) == c \in {" ", "_", "-"}

RECURSIVE DropSeparatorRun(_)
DropSeparatorRun(s) ==
    IF s # <<>> /\ IsSpaceUnderscoreOrHyphen(Head(s)) THEN DropSeparatorRun(Tail(s)) ELSE s

RECURSIVE ReplaceSeparatorRuns(_)
ReplaceSeparatorRuns(s) ==
    IF s = <<>> THEN <<>>
    ELSE IF IsSpaceUnderscoreOrHyphen(Head(s))
         THEN <<"-">> \o ReplaceSeparatorRuns(DropSeparatorRun(s))
    ELSE <<Head(s)>> \o ReplaceSeparatorRuns(Tail(s))

\* sanitize_name with the first pattern written [ _-]+ : hyphens are collapsed too
sanitize_name_collapsing(nm) == Lower(RemoveInvalid(ReplaceSeparatorRuns(nm)))

sanitize_name(nm) == Lower(RemoveInvalid(ReplaceSpaceRuns(nm)))

----------------------------------------------------------------------------
(* The placeholder probe, main.py:398-400 *)

\* the first position >= p of s that holds no decimal digit
RECURSIVE DigitRunEnd(_, _)
DigitRunEnd(s, p) ==
    IF p <= Len(s) /\ IsDigit(s[p]) THEN DigitRunEnd(s, p + 1) ELSE p

\* re.findall(r"{(\d+)}", cmd), scanning from position p: the digit strings of the
\* non-overlapping matches, left to right
RECURSIVE FindAllFrom(_, _)
FindAllFrom(s, p) ==
    IF p > Len(s) THEN <<>>
    ELSE IF s[p] = "{"
         THEN LET e == DigitRunEnd(s, p + 1) IN
              IF e > p + 1 /\ e <= Len(s) /\ s[e] = "}"
              THEN <<SubSeq(s, p + 1, e - 1)>> \o FindAllFrom(s, e + 1)
              ELSE FindAllFrom(s, p + 1)
    ELSE FindAllFrom(s, p + 1)

FindPlaceholders(cmd) == FindAllFrom(cmd, 1)

\* set(int(i) for cmd in commands for i in re.findall(...))
IndexSet(commands) ==
    {ParseInt(ds) : ds \in UNION {Range(FindPlaceholders(commands[k])) : k \in 1..Len(commands)}}

\* sorted(S) for a finite set of integers
RECURSIVE Sorted(_)
Sorted(S) ==
    IF S = {} THEN <<>>
    ELSE LET m == CHOOSE x \in S : \A y \in S : x <= y IN <<m>> \o Sorted(S \ {m})

ExtractIndices(commands) == Sorted(IndexSet(commands))

----------------------------------------------------------------------------
(* str.format with positional arguments only, main.py:424.                 *)
(* A replacement field runs from "{" to the next "}".  An empty field is   *)
(* numbered automatically, a field of decimal digits is a positional       *)
(* index, any other field is a keyword, which this call never supplies.    *)
(* "{{" and "}}" are the escaped braces.  The templates of the model hold  *)
(* no conversion (!r), format spec (:>3), attribute or item access.        *)

\* the first position >= p of s that holds "}", or Len(s)+1
RECURSIVE ClosingBrace(_, _)
ClosingBrace(s, p) ==
    IF p <= Len(s) /\ s[p] # "}" THEN ClosingBrace(s, p + 1) ELSE p

AllDigits(s) == s # <<>> /\ \A i \in 1..Len(s) : IsDigit(s[i])

FormatError(e) == [err |-> e, out |-> <<>>]

\* numbering: "init" before the first field, then "auto" or "manual";
\* next: the index the next automatically numbered field takes
RECURSIVE FormatFrom(_, _, _, _, _, _)
FormatFrom(s, p, fargs, numbering, next, acc) ==
    IF p > Len(s) THEN [err |-> "none", out |-> acc]
    ELSE IF s[p] = "{"
    THEN IF p + 1 <= Len(s) /\ s[p + 1] = "{"
         THEN FormatFrom(s, p + 2, fargs, numbering, next, Append(acc, "{"))
         ELSE LET q == ClosingBrace(s, p + 1)
                  field == SubSeq(s, p + 1, q - 1)
              IN  IF q > Len(s) THEN FormatError("ValueError")
                  ELSE IF field = <<>>
                  THEN IF numbering = "manual" THEN FormatError("ValueError")
                       ELSE IF next >= Len(fargs) THEN FormatError("IndexError")
                       ELSE FormatFrom(s, q + 1, fargs, "auto", next + 1,
                                       acc \o fargs[next + 1])
                  ELSE IF AllDigits(field)
                  THEN IF numbering = "auto" THEN FormatError("ValueError")
                       ELSE IF ParseInt(field) >= Len(fargs) THEN FormatError("IndexError")
                       ELSE FormatFrom(s, q + 1, fargs, "manual", next,
                                       acc \o fargs[ParseInt(field) + 1])
                  ELSE FormatError("KeyError")
    ELSE IF s[p] = "}"
    THEN IF p + 1 <= Len(s) /\ s[p + 1] = "}"
         THEN FormatFrom(s, p + 2, fargs, numbering, next, Append(acc, "}"))
         ELSE FormatError("ValueError")
    ELSE FormatFrom(s, p + 1, fargs, numbering, next, Append(acc, s[p]))

\* raw_cmd.format(args...): [err, out], err the exception raised or "none"
Format(raw_cmd, fargs) == FormatFrom(raw_cmd, 1, fargs, "init", 0, <<>>)

----------------------------------------------------------------------------
(* The cd probe, main.py:437-439: optional white space, cd, white space,   *)
(* then a double-quoted path without quotes inside or a run of characters  *)
(* that are not white space, then optional white space up to the end.      *)

\* the first position >= p of s that holds no white space, or Len(s)+1
RECURSIVE SkipWhitespace(_, _)
SkipWhitespace(s, p) ==
    IF p <= Len(s) /\ s[p] \in Whitespace THEN SkipWhitespace(s, p + 1) ELSE p

\* the first position >= p of s that holds white space, or Len(s)+1
RECURSIVE SkipNonWhitespace(_, _)
SkipNonWhitespace(s, p) ==
    IF p <= Len(s) /\ s[p] \notin Whitespace THEN SkipNonWhitespace(s, p + 1) ELSE p

\* the first position >= p of s that holds a double quote, or Len(s)+1
RECURSIVE NextQuote(_, _)
NextQuote(s, p) ==
    IF p <= Len(s) /\ s[p] # "\"" THEN NextQuote(s, p + 1) ELSE p

\* re.match(...) on cmd: whether it matches, and
\* cd_match.group("quoted_path") or cd_match.group("unquoted_path")
CdMatch(cmd) ==
    LET a == SkipWhitespace(cmd, 1)
        hasCd == a + 1 <= Len(cmd) /\ cmd[a] = "c" /\ cmd[a + 1] = "d"
        b == SkipWhitespace(cmd, a + 2)
        q == NextQuote(cmd, b + 1)
        quoted == /\ b <= Len(cmd) /\ cmd[b] = "\""
                  /\ q <= Len(cmd) /\ q > b + 1
                  /\ SkipWhitespace(cmd, q + 1) > Len(cmd)
        e == SkipNonWhitespace(cmd, b)
        unquoted == e > b /\ SkipWhitespace(cmd, e) > Len(cmd)
    IN  IF hasCd /\ b > a + 2 /\ quoted
        THEN [matched |-> TRUE, target_path |-> SubSeq(cmd, b + 1, q - 1)]
        ELSE IF hasCd /\ b > a + 2 /\ unquoted
        THEN [matched |-> TRUE, target_path |-> SubSeq(cmd, b, e - 1)]
        ELSE [matched |-> FALSE, target_path |-> <<>>]

\* what shell-emission mode writes for one resolved command, main.py:437-444
ShellLine(cmd) ==
    IF CdMatch(cmd).matched
    THEN <<"c","d"," ","\"">> \o CdMatch(cmd).target_path \o <<"\"","\n">>
    ELSE cmd \o <<"\n">>

\* " && ".join(commands), main.py:451
RECURSIVE JoinAnd(_)
JoinAnd(commands) ==
    IF commands = <<>> THEN <<>>
    ELSE IF Len(commands) = 1 THEN commands[1]
    ELSE commands[1] \o <<" ","&","&"," ">> \o JoinAnd(Tail(commands))

----------------------------------------------------------------------------
(* The data document (load_data, main.py:90-100): a dict from keybind to   *)
(* {"macros": [{"name": ..., "commands": [...]}, ...]}.  A dict keeps its   *)
(* keys in insertion order, so it is a sequence of entries with distinct   *)
(* keys.                                                                   *)

Macro(nm, commands) == [name |-> nm, commands |-> commands]

Entry(key, macros) == [key |-> key, macros |-> macros]

\* list(data.keys())
Keys(d) == [i \in 1..Len(d) |-> d[i].key]

\* keybind in data
HasKey(d, key) == \E i \in 1..Len(d) : d[i].key = key

\* data[keybind].get("macros", [])
MacrosOf(d, key) == d[CHOOSE i \in 1..Len(d) : d[i].key = key].macros

\* no data file, or an empty document
EmptyDocument == <<>>

\* a document whose macros cover the shapes of template run_macro meets
SampleDocument ==
    << Entry(<<"g">>,
         << Macro(<<"t","w","o">>,  <<<<"e","c","h","o"," ","{","0","}">>, <<"t","o","u","c","h"," ","{","1","}",".","t","x","t">>>>),
            Macro(<<"g","a","p">>,  <<<<"e","c","h","o"," ","{","0","}">>, <<"e","c","h","o"," ","{","2","}">>>>),
            Macro(<<"c","d","-","m">>, <<<<"c","d"," ","m","y"," ","f","o","l","d","e","r">>, <<"e","c","h","o"," ","h","i">>>>),
            Macro(<<"c","d","a">>,  <<<<"c","d"," ","{","0","}">>>>),
            Macro(<<"c","d","q">>,  <<<<"c","d"," ","\"","{","0","}","\"">>>>),
            Macro(<<"k","w">>,   <<<<"e","c","h","o"," ","{","n","a","m","e","}">>>>),
            Macro(<<"a","u","t","o">>, <<<<"e","c","h","o"," ","{","}">>>>),
            Macro(<<"f","a","i","l">>, <<<<"f","a","l","s","e">>, <<"e","c","h","o"," ","u","n","r","e","a","c","h","a","b","l","e">>>>),
            Macro(<<"n","o","n","e">>, <<>>) >>),
       Entry(<<"e">>, <<>>) >>

Documents == {EmptyDocument, SampleDocument}

\* the keybind argument: absent, a keybind with macros, one without, an unknown one
KeybindInputs == {<<>>, <<"g">>, <<"e">>, <<"z","z">>}

\* the name argument: absent, the stored names, names that sanitize to a stored
\* name, and an unknown one
NameInputs ==
    {<<>>, <<"t","w","o">>, <<"g","a","p">>, <<"c","d","-","m">>, <<"c","d","a">>, <<"c","d","q">>, <<"k","w">>, <<"a","u","t","o">>, <<"f","a","i","l">>, <<"n","o","n","e">>,
     <<"C","d"," ","M">>, <<"G","_","a","_","p","!">>, <<"z","z">>}

\* the values an argument takes, on the command line or at a prompt
ArgValues == {<<"f","o","o">>, <<"m","y"," ","f","o","l","d","e","r">>}

SeqsUpTo(S, n) == UNION {[1..k -> S] : k \in 0..n}

SuppliedInputs == SeqsUpTo(ArgValues, MaxSupplied)

ReturnCodes == 0..MaxReturnCode

\* before the lookup of main.py:393 no macro is bound
NoMacro == Macro(<<>>, <<>>)

----------------------------------------------------------------------------
(* The texts run_macro hands to print_func. *)

\* str(n) for n >= 0
RECURSIVE IntToStr(_)
IntToStr(n) ==
    IF n < 10 THEN <<DigitChars[n + 1]>>
    ELSE IntToStr(n \div 10) \o <<DigitChars[(n % 10) + 1]>>

\* main.py:353
NoMacrosMessage(mode) ==
    IF mode THEN <<"e","c","h","o"," ","\"","N","o"," ","m","a","c","r","o","s"," ","f","o","u","n","d",".","\"","\n">>
    ELSE <<"[","b","o","l","d"," ","r","e","d","]","N","o"," ","m","a","c","r","o","s"," ","f","o","u","n","d",".","[","/","b","o","l","d"," ","r","e","d","]","\n">>

\* main.py:366 and main.py:387; saved is _temp_shell_output_mode, e the text of
\* the ValueError
SelectorErrorMessage(saved, e) ==
    IF ~saved THEN <<"e","c","h","o"," ","\"","E","r","r","o","r",":"," ">> \o e \o <<"\"","\n">>
    ELSE <<"[","r","e","d","]">> \o e \o <<"[","/","r","e","d","]","\n">>

\* main.py:372
KeybindNotFoundMessage(mode, kb) ==
    IF mode THEN <<"e","c","h","o"," ","\"","K","e","y","b","i","n","d"," ","'">> \o kb \o <<"'"," ","n","o","t"," ","f","o","u","n","d",".","\"","\n">>
    ELSE <<"[","r","e","d","]","K","e","y","b","i","n","d"," ","'">> \o kb \o <<"'"," ","n","o","t"," ","f","o","u","n","d",".","[","/","r","e","d","]","\n">>

\* main.py:377
NoMacrosAvailableMessage(mode, kb) ==
    IF mode THEN <<"e","c","h","o"," ","\"","N","o"," ","m","a","c","r","o","s"," ","a","v","a","i","l","a","b","l","e"," ","u","n","d","e","r"," ","k","e","y","b","i","n","d"," ","'">> \o kb \o <<"'",".","\"","\n">>
    ELSE <<"[","r","e","d","]","N","o"," ","m","a","c","r","o","s"," ","a","v","a","i","l","a","b","l","e"," ","u","n","d","e","r"," ","k","e","y","b","i","n","d"," ","'">> \o kb \o <<"'",".","[","/","r","e","d","]","\n">>

\* main.py:395
MacroNotFoundMessage(mode, nm, kb) ==
    IF mode
    THEN <<"e","c","h","o"," ","\"","M","a","c","r","o"," ","'">> \o nm \o <<"'"," ","n","o","t"," ","f","o","u","n","d"," ","u","n","d","e","r"," ","k","e","y","b","i","n","d"," ","'">> \o kb \o <<"'",".","\"","\n">>
    ELSE <<"[","r","e","d","]","M","a","c","r","o"," ","'">> \o nm \o <<"'"," ","n","o","t"," ","f","o","u","n","d"," ","u","n","d","e","r"," ","k","e","y","b","i","n","d"," ","'">> \o kb \o <<"'",".","[","/","r","e","d","]","\n">>

\* main.py:426-427
MissingArgumentsMessage(mode, raw_cmd) ==
    IF mode THEN <<"e","c","h","o"," ","\"","M","i","s","s","i","n","g"," ","a","r","g","u","m","e","n","t","s"," ","f","o","r"," ","c","o","m","m","a","n","d",":"," ","'">> \o raw_cmd \o <<"'","\"","\n">>
    ELSE <<"[","r","e","d","]","M","i","s","s","i","n","g"," ","a","r","g","u","m","e","n","t","s"," ","f","o","r"," ","c","o","m","m","a","n","d",":"," ","'">> \o raw_cmd \o <<"'","[","/","r","e","d","]","\n">>

\* the header written whatever the mode
ExecutingHeaderAlways(mode, nm, kb) ==
    << <<"\n">>,
       <<"[","b","o","l","d"," ","g","r","e","e","n","]","E","x","e","c","u","t","i","n","g"," ","m","a","c","r","o",":","[","/","b","o","l","d"," ","g","r","e","e","n","]"," ","[","c","y","a","n","]">> \o nm \o <<"[","/","c","y","a","n","]","\n">>,
       <<"[","d","i","m","]","K","e","y","b","i","n","d",":"," ">> \o kb \o <<"[","/","d","i","m","]","\n">> >>

\* main.py:415-418: the lines written before rendering
ExecutingHeader(mode, nm, kb) ==
    IF ~mode
    THEN << <<"\n">>,
            <<"[","b","o","l","d"," ","g","r","e","e","n","]","E","x","e","c","u","t","i","n","g"," ","m","a","c","r","o",":","[","/","b","o","l","d"," ","g","r","e","e","n","]"," ","[","c","y","a","n","]">> \o nm \o <<"[","/","c","y","a","n","]","\n">>,
            <<"[","d","i","m","]","K","e","y","b","i","n","d",":"," ">> \o kb \o <<"[","/","d","i","m","]","\n">> >>
    ELSE <<>>

\* main.py:452
ExecutingInSubShellMessage(full_shell_command) ==
    <<"\n","[","g","r","e","e","n","]","E","x","e","c","u","t","i","n","g"," ","i","n"," ","s","u","b","-","s","h","e","l","l",":"," ">> \o full_shell_command \o <<"[","/","g","r","e","e","n","]","\n">>

\* main.py:456
SubShellFailedMessage(rc) ==
    <<"[","r","e","d","]","S","u","b","-","s","h","e","l","l"," ","c","o","m","m","a","n","d"," ","f","a","i","l","e","d"," ","w","i","t","h"," ","c","o","d","e"," ">> \o IntToStr(rc) \o <<"[","/","r","e","d","]","\n">>

\* main.py:459
NoCommandsMessage == <<"[","d","i","m","]","N","o"," ","c","o","m","m","a","n","d","s"," ","t","o"," ","e","x","e","c","u","t","e",".","[","/","d","i","m","]","\n">>

\* os.getcwd(), main.py:469
WorkingDirectory == <<"/","h","o","m","e","/","u","s","e","r">>

\* main.py:462-470, the text of the assembled note
DirectoryNote ==
    <<"\n","[","b","o","l","d"," ","y","e","l","l","o","w","]","N","o","t","e",":","[","/","b","o","l","d"," ","y","e","l","l","o","w","]"," ">> \o
    <<"T","o"," ","c","h","a","n","g","e"," ","y","o","u","r"," ","a","c","t","u","a","l"," ","s","h","e","l","l","'","s"," ","d","i","r","e","c","t","o","r","y",","," ","l","a","u","n","c","h"," ","'","m","a","k","'"," ","d","i","r","e","c","t","l","y"," ","(","i","f"," ","i","n","s","t","a","l","l","e","d",")",":","\n">> \o
    <<"m","a","k"," ","r","u","n"," ",".",".",".","\n">> \o
    <<"I","f"," ","u","s","i","n","g"," ","`","p","y","t","h","o","n"," ","m","a","i","n",".","p","y","`",","," ","y","o","u"," ","n","e","e","d"," ","t","o"," ","`","e","v","a","l","`"," ","i","t","s"," ","o","u","t","p","u","t",":","\n">> \o
    <<"e","v","a","l"," ","\"","$","(","p","y","t","h","o","n"," ","m","a","i","n",".","p","y"," ","r","u","n"," ","-","-","s","h","e","l","l"," ",".",".",".",")","\"","\n">> \o
    <<"P","y","t","h","o","n"," ","s","c","r","i","p","t","'","s"," ","c","u","r","r","e","n","t"," ","w","o","r","k","i","n","g"," ","d","i","r","e","c","t","o","r","y",":"," ">> \o WorkingDirectory

----------------------------------------------------------------------------
(* select_from_list, main.py:296-325.  answer is what questionary's        *)
(* select(...).ask() returns: 0 for None, else the position of the chosen  *)
(* option.  The result is the string returned, or the ValueError raised.   *)

select_from_list(options, answer) ==
    IF options = <<>> THEN [raised |-> TRUE, e |-> <<"N","o"," ","o","p","t","i","o","n","s">>, value |-> <<>>]
    ELSE IF answer = 0 THEN [raised |-> TRUE, e |-> <<"N","o"," ","s","e","l","e","c","t","i","o","n"," ","m","a","d","e">>, value |-> <<>>]
    ELSE [raised |-> FALSE, e |-> <<>>, value |-> options[answer]]

\* the answers the selector can give over these options
Answers(options) == 0..Len(options)

----------------------------------------------------------------------------
(* Pieces of run_macro that are expressions of the source. *)

\* next((m for m in macros if m["name"] == name), None), main.py:393
FindMacro(macros, nm) ==
    IF \E i \in 1..Len(macros) : macros[i].name = nm
    THEN macros[CHOOSE i \in 1..Len(macros) :
                    /\ macros[i].name = nm
                    /\ \A j \in 1..(i - 1) : macros[j].name # nm]
    ELSE NoMacro

MacroFound(macros, nm) == \E i \in 1..Len(macros) : macros[i].name = nm

\* the prompt labelled with the slot it fills
PromptIndexBySlot(indices, a) == Len(a)

\* idx = arg_indices[len(args)], main.py:406
PromptIndex(indices, a) == indices[Len(a) + 1]

\* the sub-process's failure reported as the fixed code 1
FailureExitCodeFixed(rc) == 1

\* raise typer.Exit(code=result.returncode), main.py:457
FailureExitCode(rc) == rc

\* the commands joined with the unconditional separator
RECURSIVE JoinSemicolon(_)
JoinSemicolon(commands) ==
    IF commands = <<>> THEN <<>>
    ELSE IF Len(commands) = 1 THEN commands[1]
    ELSE commands[1] \o <<";"," ">> \o JoinSemicolon(Tail(commands))

\* full_shell_command, main.py:451
FullShellCommand(commands) == JoinAnd(commands)

----------------------------------------------------------------------------
(* run_macro, main.py:328-470 *)

Init ==
    /\ pc = "start"
    /\ shell \in BOOLEAN
    /\ SHELL_OUTPUT_MODE = FALSE
    /\ temp_mode = FALSE
    /\ data \in Documents
    /\ keybind \in KeybindInputs
    /\ name \in NameInputs
    /\ supplied \in SuppliedInputs
    /\ args = supplied
    /\ macro = NoMacro
    /\ arg_indices = <<>>
    /\ prompt_idx = 0
    /\ prompts = <<>>
    /\ commands_to_execute = <<>>
    /\ stdout = <<>>
    /\ spawned = <<>>
    /\ returncode = 0
    /\ outcome = "running"
    /\ exit_code = 0
    /\ sn_in = <<>>
    /\ sn_out = <<>>
    /\ sn_twice = <<>>
    /\ op = "none"
    /\ data_before = EmptyDocument

\* the run ends: raise typer.Exit(code), raise typer.Abort() (status 1), an
\* exception nothing catches (status 1), or the return of run_macro (status 0)
Ends(how, code) ==
    /\ pc' = "exit"
    /\ outcome' = how
    /\ exit_code' = code

Continues(to) ==
    /\ pc' = to
    /\ UNCHANGED <<outcome, exit_code>>

\* main.py:341-354
Begin ==
    /\ pc = "start"
    /\ SHELL_OUTPUT_MODE' = shell
    /\ IF data = EmptyDocument
       THEN /\ stdout' = Append(stdout, NoMacrosMessage(shell))
            /\ Ends("no_macros", 1)
       ELSE /\ stdout' = stdout
            /\ Continues("keybind")
    /\ UNCHANGED <<shell, temp_mode, data, keybind, name, supplied, args, macro,
                   arg_indices, prompt_idx, prompts, commands_to_execute, spawned,
                   returncode, snVars, storeVars>>

\* main.py:360-364, up to the selector being shown
KeybindSelectorEnter ==
    /\ pc = "keybind"
    /\ keybind = <<>>
    /\ temp_mode' = SHELL_OUTPUT_MODE
    /\ SHELL_OUTPUT_MODE' = FALSE
    /\ Continues("keybind_select")
    /\ UNCHANGED <<shell, data, keybind, name, supplied, args, macro, arg_indices,
                   prompt_idx, prompts, commands_to_execute, stdout, spawned,
                   returncode, snVars, storeVars>>

\* the selector call of main.py:364 without the finally clause: the flag is
\* restored only when the selector returns
KeybindSelectorReturnNoFinally ==
    /\ pc = "keybind_select"
    /\ \E answer \in Answers(Keys(data)) :
         LET r == select_from_list(Keys(data), answer) IN
         IF r.raised
         THEN /\ stdout' = Append(stdout, SelectorErrorMessage(temp_mode, r.e))
              /\ keybind' = keybind
              /\ SHELL_OUTPUT_MODE' = SHELL_OUTPUT_MODE
              /\ Ends("no_selection", 1)
         ELSE /\ stdout' = stdout
              /\ keybind' = r.value
              /\ SHELL_OUTPUT_MODE' = temp_mode
              /\ Continues("check_keybind")
    /\ UNCHANGED <<shell, temp_mode, data, name, supplied, args, macro, arg_indices,
                   prompt_idx, prompts, commands_to_execute, spawned, returncode,
                   snVars, storeVars>>

\* main.py:364-369, the selector returns or raises
KeybindSelectorReturn ==
    /\ pc = "keybind_select"
    /\ \E answer \in Answers(Keys(data)) :
         LET r == select_from_list(Keys(data), answer) IN
         IF r.raised
         THEN /\ stdout' = Append(stdout, SelectorErrorMessage(temp_mode, r.e))
              /\ keybind' = keybind
              /\ Ends("no_selection", 1)
         ELSE /\ stdout' = stdout
              /\ keybind' = r.value
              /\ Continues("check_keybind")
    /\ SHELL_OUTPUT_MODE' = temp_mode
    /\ UNCHANGED <<shell, temp_mode, data, name, supplied, args, macro, arg_indices,
                   prompt_idx, prompts, commands_to_execute, spawned, returncode,
                   snVars, storeVars>>

\* main.py:360, the keybind was given
KeybindGiven ==
    /\ pc = "keybind"
    /\ keybind # <<>>
    /\ Continues("check_keybind")
    /\ UNCHANGED <<shell, SHELL_OUTPUT_MODE, temp_mode, data, keybind, name, supplied,
                   args, macro, arg_indices, prompt_idx, prompts, commands_to_execute,
                   stdout, spawned, returncode, snVars, storeVars>>

\* main.py:371-378
CheckKeybind ==
    /\ pc = "check_keybind"
    /\ IF ~HasKey(data, keybind)
       THEN /\ stdout' = Append(stdout, KeybindNotFoundMessage(SHELL_OUTPUT_MODE, keybind))
            /\ Ends("keybind_not_found", 1)
       ELSE IF MacrosOf(data, keybind) = <<>>
       THEN /\ stdout' = Append(stdout, NoMacrosAvailableMessage(SHELL_OUTPUT_MODE, keybind))
            /\ Ends("keybind_empty", 1)
       ELSE /\ stdout' = stdout
            /\ Continues("name")
    /\ UNCHANGED <<shell, SHELL_OUTPUT_MODE, temp_mode, data, keybind, name, supplied,
                   args, macro, arg_indices, prompt_idx, prompts, commands_to_execute,
                   spawned, returncode, snVars, storeVars>>

\* main.py:380-385, up to the selector being shown
MacroSelectorEnter ==
    /\ pc = "name"
    /\ name = <<>>
    /\ temp_mode' = SHELL_OUTPUT_MODE
    /\ SHELL_OUTPUT_MODE' = FALSE
    /\ Continues("macro_select")
    /\ UNCHANGED <<shell, data, keybind, name, supplied, args, macro, arg_indices,
                   prompt_idx, prompts, commands_to_execute, stdout, spawned,
                   returncode, snVars, storeVars>>

\* [m["name"] for m in macros], main.py:383
MacroNames(macros) == [i \in 1..Len(macros) |-> macros[i].name]

\* main.py:385-390, the selector returns or raises
MacroSelectorReturn ==
    /\ pc = "macro_select"
    /\ \E answer \in Answers(MacroNames(MacrosOf(data, keybind))) :
         LET r == select_from_list(MacroNames(MacrosOf(data, keybind)), answer) IN
         IF r.raised
         THEN /\ stdout' = Append(stdout, SelectorErrorMessage(temp_mode, r.e))
              /\ name' = name
              /\ Ends("no_selection", 1)
         ELSE /\ stdout' = stdout
              /\ name' = r.value
              /\ Continues("lookup")
    /\ SHELL_OUTPUT_MODE' = temp_mode
    /\ UNCHANGED <<shell, temp_mode, data, keybind, supplied, args, macro, arg_indices,
                   prompt_idx, prompts, commands_to_execute, spawned, returncode,
                   snVars, storeVars>>

\* main.py:380, the name was given
NameGiven ==
    /\ pc = "name"
    /\ name # <<>>
    /\ Continues("lookup")
    /\ UNCHANGED <<shell, SHELL_OUTPUT_MODE, temp_mode, data, keybind, name, supplied,
                   args, macro, arg_indices, prompt_idx, prompts, commands_to_execute,
                   stdout, spawned, returncode, snVars, storeVars>>

\* main.py:392-400
LookupMacro ==
    /\ pc = "lookup"
    /\ name' = sanitize_name(name)
    /\ IF ~MacroFound(MacrosOf(data, keybind), sanitize_name(name))
       THEN /\ stdout' = Append(stdout, MacroNotFoundMessage(SHELL_OUTPUT_MODE,
                                                             sanitize_name(name), keybind))
            /\ UNCHANGED <<macro, arg_indices>>
            /\ Ends("macro_not_found", 1)
       ELSE /\ stdout' = stdout
            /\ macro' = FindMacro(MacrosOf(data, keybind), sanitize_name(name))
            /\ arg_indices' = ExtractIndices(macro'.commands)
            /\ Continues("resolve")
    /\ UNCHANGED <<shell, SHELL_OUTPUT_MODE, temp_mode, data, keybind, supplied, args,
                   prompt_idx, prompts, commands_to_execute, spawned, returncode,
                   snVars, storeVars>>

\* main.py:402-407, up to the prompt being shown
PromptEnter ==
    /\ pc = "resolve"
    /\ Len(args) < Len(arg_indices)
    /\ temp_mode' = SHELL_OUTPUT_MODE
    /\ SHELL_OUTPUT_MODE' = FALSE
    /\ prompt_idx' = PromptIndex(arg_indices, args)
    /\ prompts' = Append(prompts, prompt_idx')
    /\ Continues("prompt")
    /\ UNCHANGED <<shell, data, keybind, name, supplied, args, macro, arg_indices,
                   commands_to_execute, stdout, spawned, returncode, snVars, storeVars>>

\* main.py:407-410, the prompt returns a value
PromptReturn ==
    /\ pc = "prompt"
    /\ \E val \in ArgValues : args' = Append(args, val)
    /\ SHELL_OUTPUT_MODE' = temp_mode
    /\ Continues("resolve")
    /\ UNCHANGED <<shell, temp_mode, data, keybind, name, supplied, macro, arg_indices,
                   prompt_idx, prompts, commands_to_execute, stdout, spawned,
                   returncode, snVars, storeVars>>

\* main.py:407-410, the prompt is interrupted: typer.prompt raises Abort, which
\* only the finally clause handles
PromptAbort ==
    /\ pc = "prompt"
    /\ SHELL_OUTPUT_MODE' = temp_mode
    /\ Ends("prompt_aborted", 1)
    /\ UNCHANGED <<shell, temp_mode, data, keybind, name, supplied, args, macro,
                   arg_indices, prompt_idx, prompts, commands_to_execute, stdout,
                   spawned, returncode, snVars, storeVars>>

\* main.py:402 (the loop ends) and main.py:415-420
ResolveDone ==
    /\ pc = "resolve"
    /\ ~(Len(args) < Len(arg_indices))
    /\ stdout' = stdout \o ExecutingHeader(SHELL_OUTPUT_MODE, name, keybind)
    /\ commands_to_execute' = <<>>
    /\ Continues(IF macro.commands = <<>> THEN "dispatch" ELSE "render")
    /\ UNCHANGED <<shell, SHELL_OUTPUT_MODE, temp_mode, data, keybind, name, supplied,
                   args, macro, arg_indices, prompt_idx, prompts, spawned, returncode,
                   snVars, storeVars>>

\* the loop of main.py:422-429 dispatching each command as soon as it is rendered
RenderNextEager ==
    /\ pc = "render"
    /\ LET raw_cmd == macro.commands[Len(commands_to_execute) + 1]
           r == Format(raw_cmd, args)
       IN  IF r.err = "IndexError"
           THEN /\ stdout' = Append(stdout, MissingArgumentsMessage(SHELL_OUTPUT_MODE, raw_cmd))
                /\ UNCHANGED <<commands_to_execute, spawned>>
                /\ Ends("missing_argument", 1)
           ELSE IF r.err # "none"
           THEN /\ UNCHANGED <<stdout, commands_to_execute, spawned>>
                /\ Ends("uncaught_exception", 1)
           ELSE /\ commands_to_execute' = Append(commands_to_execute, r.out)
                /\ IF SHELL_OUTPUT_MODE
                   THEN stdout' = Append(stdout, ShellLine(r.out)) /\ spawned' = spawned
                   ELSE stdout' = stdout /\ spawned' = Append(spawned, r.out)
                /\ Continues(IF Len(commands_to_execute') = Len(macro.commands)
                             THEN "dispatch" ELSE "render")
    /\ UNCHANGED <<shell, SHELL_OUTPUT_MODE, temp_mode, data, keybind, name, supplied,
                   args, macro, arg_indices, prompt_idx, prompts, returncode, snVars, storeVars>>

\* main.py:422-429, one iteration: the next template is rendered; IndexError is
\* the only exception the loop catches
RenderNext ==
    /\ pc = "render"
    /\ LET raw_cmd == macro.commands[Len(commands_to_execute) + 1]
           r == Format(raw_cmd, args)
       IN  IF r.err = "IndexError"
           THEN /\ stdout' = Append(stdout, MissingArgumentsMessage(SHELL_OUTPUT_MODE, raw_cmd))
                /\ UNCHANGED commands_to_execute
                /\ Ends("missing_argument", 1)
           ELSE IF r.err # "none"
           THEN /\ UNCHANGED <<stdout, commands_to_execute>>
                /\ Ends("uncaught_exception", 1)
           ELSE /\ stdout' = stdout
                /\ commands_to_execute' = Append(commands_to_execute, r.out)
                /\ Continues(IF Len(commands_to_execute') = Len(macro.commands)
                             THEN "dispatch" ELSE "render")
    /\ UNCHANGED <<shell, SHELL_OUTPUT_MODE, temp_mode, data, keybind, name, supplied,
                   args, macro, arg_indices, prompt_idx, prompts, spawned, returncode,
                   snVars, storeVars>>

\* main.py:432-444: shell-emission mode writes one line for each command
EmitShell ==
    /\ pc = "dispatch"
    /\ SHELL_OUTPUT_MODE
    /\ stdout' = stdout \o [k \in 1..Len(commands_to_execute) |->
                               ShellLine(commands_to_execute[k])]
    /\ Ends("success", 0)
    /\ UNCHANGED <<shell, SHELL_OUTPUT_MODE, temp_mode, data, keybind, name, supplied,
                   args, macro, arg_indices, prompt_idx, prompts, commands_to_execute,
                   spawned, returncode, snVars, storeVars>>

\* main.py:446-453: direct mode hands the compound command to subprocess.run
SpawnSubprocess ==
    /\ pc = "dispatch"
    /\ ~SHELL_OUTPUT_MODE
    /\ commands_to_execute # <<>>
    /\ stdout' = Append(stdout,
                        ExecutingInSubShellMessage(FullShellCommand(commands_to_execute)))
    /\ spawned' = Append(spawned, FullShellCommand(commands_to_execute))
    /\ Continues("subprocess")
    /\ UNCHANGED <<shell, SHELL_OUTPUT_MODE, temp_mode, data, keybind, name, supplied,
                   args, macro, arg_indices, prompt_idx, prompts, commands_to_execute,
                   returncode, snVars, storeVars>>

\* main.py:453-457 and main.py:462-470: the sub-process ends with a return code
SubprocessReturn ==
    /\ pc = "subprocess"
    /\ \E rc \in ReturnCodes :
         /\ returncode' = rc
         /\ IF rc # 0
            THEN /\ stdout' = Append(stdout, SubShellFailedMessage(rc))
                 /\ Ends("command_failed", FailureExitCode(rc))
            ELSE /\ stdout' = Append(stdout, DirectoryNote)
                 /\ Ends("success", 0)
    /\ UNCHANGED <<shell, SHELL_OUTPUT_MODE, temp_mode, data, keybind, name, supplied,
                   args, macro, arg_indices, prompt_idx, prompts, commands_to_execute,
                   spawned, snVars, storeVars>>

\* main.py:458-470: direct mode with nothing to execute
NoCommands ==
    /\ pc = "dispatch"
    /\ ~SHELL_OUTPUT_MODE
    /\ commands_to_execute = <<>>
    /\ stdout' = stdout \o <<NoCommandsMessage, DirectoryNote>>
    /\ Ends("success", 0)
    /\ UNCHANGED <<shell, SHELL_OUTPUT_MODE, temp_mode, data, keybind, name, supplied,
                   args, macro, arg_indices, prompt_idx, prompts, commands_to_execute,
                   spawned, returncode, snVars, storeVars>>

Next ==
    \/ Begin
    \/ KeybindSelectorEnter
    \/ KeybindSelectorReturn
    \/ KeybindGiven
    \/ CheckKeybind
    \/ MacroSelectorEnter
    \/ MacroSelectorReturn
    \/ NameGiven
    \/ LookupMacro
    \/ PromptEnter
    \/ PromptReturn
    \/ PromptAbort
    \/ ResolveDone
    \/ RenderNext
    \/ EmitShell
    \/ SpawnSubprocess
    \/ SubprocessReturn
    \/ NoCommands

Spec == Init /\ [][Next]_vars

----------------------------------------------------------------------------
(* sanitize_name applied to arbitrary strings, and applied again to its    *)
(* result.                                                                 *)

\* characters of every class the two patterns of sanitize_name distinguish
NameAlphabet == {"A", "b", "1", " ", "_", "-", "!"}

InitSanitize ==
    /\ pc = "sanitize"
    /\ shell = FALSE
    /\ SHELL_OUTPUT_MODE = FALSE
    /\ temp_mode = FALSE
    /\ data = EmptyDocument
    /\ keybind = <<>>
    /\ name = <<>>
    /\ supplied = <<>>
    /\ args = <<>>
    /\ macro = NoMacro
    /\ arg_indices = <<>>
    /\ prompt_idx = 0
    /\ prompts = <<>>
    /\ commands_to_execute = <<>>
    /\ stdout = <<>>
    /\ spawned = <<>>
    /\ returncode = 0
    /\ outcome = "running"
    /\ exit_code = 0
    /\ sn_in \in SeqsUpTo(NameAlphabet, MaxNameLen)
    /\ sn_out = <<>>
    /\ sn_twice = <<>>
    /\ op = "none"
    /\ data_before = EmptyDocument

SanitizeOnce ==
    /\ pc = "sanitize"
    /\ sn_out' = sanitize_name(sn_in)
    /\ pc' = "sanitized"
    /\ UNCHANGED <<shell, SHELL_OUTPUT_MODE, temp_mode, data, keybind, name, supplied,
                   args, macro, arg_indices, prompt_idx, prompts, commands_to_execute,
                   stdout, spawned, returncode, outcome, exit_code, sn_in, sn_twice,
                   storeVars>>

SanitizeAgain ==
    /\ pc = "sanitized"
    /\ sn_twice' = sanitize_name(sn_out)
    /\ pc' = "sanitized_twice"
    /\ UNCHANGED <<shell, SHELL_OUTPUT_MODE, temp_mode, data, keybind, name, supplied,
                   args, macro, arg_indices, prompt_idx, prompts, commands_to_execute,
                   stdout, spawned, returncode, outcome, exit_code, sn_in, sn_out,
                   storeVars>>

NextSanitize == SanitizeOnce \/ SanitizeAgain

SpecSanitize == InitSanitize /\ [][NextSanitize]_vars

----------------------------------------------------------------------------
(* The commands that rewrite the data document: keybinds add               *)
(* (main.py:177-194), keybinds remove (main.py:219-231) and macros add     *)
(* (main.py:234-264).  Each is one invocation of the program: it loads the *)
(* document, changes it and saves it whole, or ends before saving.  stdout *)
(* holds the texts the invocation handed to print.                         *)

\* the keybind argument of the three commands; "G" sanitizes to "g"
StoreKeybindInputs == {<<"g">>, <<"G">>, <<"e">>}

\* the name argument of macros add; "A" sanitizes to "a", "b c" to "b-c"
StoreNameInputs == {<<"a">>, <<"A">>, <<"b"," ","c">>}

\* the command argument of macros add
CommandInputs == {<<"l","s">>, <<"l","s",";","p","w","d">>}

\* the --sep option of macros add: the default, another one, the empty string
SeparatorInputs == {<<";">>, <<",">>, <<>>}

\* sep occurs in s at position p
OccursAt(s, sep, p) ==
    /\ p + Len(sep) - 1 <= Len(s)
    /\ \A i \in 1..Len(sep) : s[p + i - 1] = sep[i]

\* str.split(sep) for a non-empty sep, scanning from position p with the piece
\* cur begun
RECURSIVE SplitFrom(_, _, _, _)
SplitFrom(s, sep, p, cur) ==
    IF p > Len(s) THEN <<cur>>
    ELSE IF OccursAt(s, sep, p)
    THEN <<cur>> \o SplitFrom(s, sep, p + Len(sep), <<>>)
    ELSE SplitFrom(s, sep, p + 1, Append(cur, s[p]))

\* command.split(seperator), main.py:252; the empty separator raises ValueError
Split(command, seperator) == SplitFrom(command, seperator, 1, <<>>)

\* data[_keybind] = {"macros": []}, main.py:192
WithKeybind(d, key) == Append(d, Entry(key, <<>>))

\* del data[keybind], main.py:229
WithoutKeybind(d, key) ==
    LET Kept(entry) == entry.key # key IN SelectSeq(d, Kept)

\* existing_macros.append(macro), main.py:261, on data[keybind]["macros"]
WithMacro(d, key, m) ==
    [i \in 1..Len(d) |->
        IF d[i].key = key THEN Entry(key, Append(d[i].macros, m)) ELSE d[i]]

\* the macro that is a duplicate only when its commands are the same too
AlreadyExistsSameMacro(existing_macros, m) ==
    \E i \in 1..Len(existing_macros) : existing_macros[i] = m

\* any(m["name"] == macro["name"] for m in existing_macros), main.py:257
AlreadyExists(existing_macros, m) ==
    \E i \in 1..Len(existing_macros) : existing_macros[i].name = m.name

\* main.py:186
SanitizedMessage(kb, sanitized) == <<"S","a","n","i","t","i","z","e","d",":"," ">> \o kb \o <<" ","→"," ">> \o sanitized

\* main.py:189
KeybindExistsMessage == <<"K","e","y","b","i","n","d"," ","a","l","r","e","a","d","y"," ","e","x","i","s","t","s",".">>

\* main.py:194
AddedKeybindMessage(sanitized) == <<"A","d","d","e","d"," ","k","e","y","b","i","n","d",":"," ">> \o sanitized

\* main.py:225
KeybindMissingMessage == <<"K","e","y","b","i","n","d"," ","n","o","t"," ","f","o","u","n","d",".">>

\* main.py:231
RemovedKeybindMessage(kb) == <<"R","e","m","o","v","e","d"," ","k","e","y","b","i","n","d",":"," ">> \o kb

\* main.py:247
KeybindDoesNotExistMessage(kb) == <<"K","e","y","b","i","n","d"," ","'">> \o kb \o <<"'"," ","d","o","e","s"," ","n","o","t"," ","e","x","i","s","t",".">>

\* main.py:258
MacroExistsMessage(nm, kb) ==
    <<"M","a","c","r","o"," ","'">> \o nm \o <<"'"," ","a","l","r","e","a","d","y"," ","e","x","i","s","t","s"," ","u","n","d","e","r"," ","k","e","y","b","i","n","d"," ","'">> \o kb \o <<"'",".">>

\* main.py:263-264
MacroAddedMessages(nm, kb, command) ==
    << <<"[","g","r","e","e","n","]","M","a","c","r","o"," ","'">> \o nm \o <<"'"," ","a","d","d","e","d"," ","t","o"," ","k","e","y","b","i","n","d"," ","'">> \o kb \o <<"'">>,
       <<"[","g","r","a","y","]","-",">"," ","C","o","m","m","a","n","d",":"," ">> \o command >>

\* the invocation ends: typer.Abort() and an uncaught exception with status 1,
\* the return of the command with status 0
StoreEnds(how, code) ==
    /\ outcome' = how
    /\ exit_code' = code

\* what no command of the store touches
StoreUnchanged ==
    UNCHANGED <<pc, shell, SHELL_OUTPUT_MODE, temp_mode, supplied, args, macro,
                arg_indices, prompt_idx, prompts, commands_to_execute, spawned,
                returncode, snVars>>

InitStore ==
    /\ pc = "store"
    /\ shell = FALSE
    /\ SHELL_OUTPUT_MODE = FALSE
    /\ temp_mode = FALSE
    /\ data = EmptyDocument
    /\ keybind = <<>>
    /\ name = <<>>
    /\ supplied = <<>>
    /\ args = <<>>
    /\ macro = NoMacro
    /\ arg_indices = <<>>
    /\ prompt_idx = 0
    /\ prompts = <<>>
    /\ commands_to_execute = <<>>
    /\ stdout = <<>>
    /\ spawned = <<>>
    /\ returncode = 0
    /\ outcome = "running"
    /\ exit_code = 0
    /\ sn_in = <<>>
    /\ sn_out = <<>>
    /\ sn_twice = <<>>
    /\ op = "none"
    /\ data_before = EmptyDocument

\* main.py:177-194
KeybindsAdd ==
    /\ pc = "store"
    /\ \E kb \in StoreKeybindInputs :
         LET sanitized == sanitize_name(kb)
             said == IF sanitized # kb THEN <<SanitizedMessage(kb, sanitized)>> ELSE <<>>
         IN /\ op' = "keybinds_add"
            /\ keybind' = kb
            /\ name' = <<>>
            /\ data_before' = data
            /\ IF HasKey(data, sanitized)
               THEN /\ stdout' = Append(said, KeybindExistsMessage)
                    /\ data' = data
                    /\ StoreEnds("aborted", 1)
               ELSE /\ data' = WithKeybind(data, sanitized)
                    /\ stdout' = Append(said, AddedKeybindMessage(sanitized))
                    /\ StoreEnds("done", 0)
    /\ StoreUnchanged

\* main.py:219-231
KeybindsRemove ==
    /\ pc = "store"
    /\ \E kb \in StoreKeybindInputs :
         /\ op' = "keybinds_remove"
         /\ keybind' = kb
         /\ name' = <<>>
         /\ data_before' = data
         /\ IF ~HasKey(data, kb)
            THEN /\ stdout' = <<KeybindMissingMessage>>
                 /\ data' = data
                 /\ StoreEnds("aborted", 1)
            ELSE /\ data' = WithoutKeybind(data, kb)
                 /\ stdout' = <<RemovedKeybindMessage(kb)>>
                 /\ StoreEnds("done", 0)
    /\ StoreUnchanged

\* main.py:234-264
MacrosAdd ==
    /\ pc = "store"
    /\ \E kb \in StoreKeybindInputs, nm \in StoreNameInputs,
          command \in CommandInputs, seperator \in SeparatorInputs :
         /\ op' = "macros_add"
         /\ keybind' = kb
         /\ name' = nm
         /\ data_before' = data
         /\ IF ~HasKey(data, kb)
            THEN /\ stdout' = <<KeybindDoesNotExistMessage(kb)>>
                 /\ data' = data
                 /\ StoreEnds("aborted", 1)
            ELSE IF seperator = <<>>
            THEN /\ stdout' = <<>>
                 /\ data' = data
                 /\ StoreEnds("error", 1)
            ELSE LET m == Macro(sanitize_name(nm), Split(command, seperator))
                     existing_macros == MacrosOf(data, kb)
                 IN IF AlreadyExists(existing_macros, m)
                    THEN /\ stdout' = <<MacroExistsMessage(m.name, kb)>>
                         /\ data' = data
                         /\ StoreEnds("aborted", 1)
                    ELSE /\ data' = WithMacro(data, kb, m)
                         /\ stdout' = MacroAddedMessages(m.name, kb, command)
                         /\ StoreEnds("done", 0)
    /\ StoreUnchanged

NextStore == KeybindsAdd \/ KeybindsRemove \/ MacrosAdd

SpecStore == InitStore /\ [][NextStore]_vars

----------------------------------------------------------------------------
(* Vocabulary of the properties. *)

IsPrefix(p, s) == Len(p) <= Len(s) /\ SubSeq(s, 1, Len(p)) = p

IsSuffix(p, s) == Len(p) <= Len(s) /\ SubSeq(s, Len(s) - Len(p) + 1, Len(s)) = p

Contains(sub, s) == \E i \in 1..(Len(s) + 1) : IsPrefix(sub, SubSeq(s, i, Len(s)))

\* the run went through argument resolution (main.py:402-410) to its end
PastResolution ==
    \/ pc \in {"render", "dispatch", "subprocess"}
    \/ pc = "exit" /\ outcome \in {"missing_argument", "uncaught_exception",
                                   "command_failed", "success"}

\* the run reached dispatch (main.py:432) and ended there
Dispatched == pc = "exit" /\ outcome \in {"command_failed", "success"}

\* the templates of the macro rendered against the final argument list
Rendered(k) == Format(macro.commands[k], args).out

\* echo "<text>" and a line end: the shell-safe form of a status line
IsEchoForm(line) == IsPrefix(<<"e","c","h","o"," ","\"">>, line) /\ IsSuffix(<<"\"","\n">>, line)

\* a status line that opens with a markup tag such as [red] or [bold red]
IsDecorated(line) == IsPrefix(<<"[">>, line)

\* the outcomes on which run_macro writes a diagnostic before it aborts
DiagnosedOutcomes ==
    {"no_macros", "no_selection", "keybind_not_found", "keybind_empty",
     "macro_not_found", "missing_argument"}

\* the last position <= p of s that holds no white space, or 0
RECURSIVE LastNonWhitespace(_, _)
LastNonWhitespace(s, p) ==
    IF p >= 1 /\ s[p] \in Whitespace THEN LastNonWhitespace(s, p - 1) ELSE p

\* cmd is the keyword cd, white space and a path: a change-directory invocation
IsChangeDirectory(cmd) ==
    LET a == SkipWhitespace(cmd, 1)
        b == SkipWhitespace(cmd, a + 2)
    IN  /\ a + 1 <= Len(cmd) /\ cmd[a] = "c" /\ cmd[a + 1] = "d"
        /\ b > a + 2
        /\ b <= Len(cmd)

\* the path of a change-directory invocation, without the quotes around it
ChangeDirectoryPath(cmd) ==
    LET a == SkipWhitespace(cmd, 1)
        b == SkipWhitespace(cmd, a + 2)
        e == LastNonWhitespace(cmd, Len(cmd))
        path == SubSeq(cmd, b, e)
    IN  IF Len(path) >= 2 /\ path[1] = "\"" /\ path[Len(path)] = "\""
        THEN SubSeq(path, 2, Len(path) - 1)
        ELSE path

\* the commands chained with the AND-then separator, built from the right
RECURSIVE AndThen(_)
AndThen(commands) ==
    IF commands = <<>> THEN <<>>
    ELSE IF Len(commands) = 1 THEN commands[1]
    ELSE AndThen(SubSeq(commands, 1, Len(commands) - 1)) \o <<" ", "&", "&", " ">>
         \o commands[Len(commands)]

\* t has a brace-delimited field whose content is not a non-negative integer
\* (the escaped braces are no field)
HasNonIntegerField(t) ==
    \E p \in 1..Len(t) :
        /\ t[p] = "{"
        /\ ~(p > 1 /\ t[p - 1] = "{")
        /\ ~(p < Len(t) /\ t[p + 1] = "{")
        /\ ClosingBrace(t, p + 1) <= Len(t)
        /\ ~AllDigits(SubSeq(t, p + 1, ClosingBrace(t, p + 1) - 1))

\* no brace-delimited field of t has an integer as its content
HasNoIntegerField(t) ==
    \A p \in 1..Len(t) :
        t[p] = "{" => ~AllDigits(SubSeq(t, p + 1, ClosingBrace(t, p + 1) - 1))

Max(a, b) == IF a >= b THEN a ELSE b

----------------------------------------------------------------------------
(* C1.  In shell-emission mode every resolved command that is a change-    *)
(* directory invocation is written as cd "<path>", also when the path is   *)
(* unquoted and holds a space (cd my folder is written cd "my folder");    *)
(* every other command is written verbatim.                                *)
C1_CdEmittedQuoted ==
    (pc = "exit" /\ shell /\ outcome = "success") =>
        \A k \in 1..Len(commands_to_execute) :
            LET cmd == commands_to_execute[k]
                line == stdout[Len(stdout) - Len(commands_to_execute) + k]
            IN  /\ cmd = <<"c","d"," ","m","y"," ","f","o","l","d","e","r">> => line = <<"c","d"," ","\"","m","y"," ","f","o","l","d","e","r","\"","\n">>
                /\ cmd = <<"e","c","h","o"," ","h","i">> => line = <<"e","c","h","o"," ","h","i","\n">>
                /\ IF IsChangeDirectory(cmd)
                   THEN line = <<"c","d"," ","\"">> \o ChangeDirectoryPath(cmd) \o <<"\"","\n">>
                   ELSE line = cmd \o <<"\n">>

(* C2.  When argument resolution is over and substitution starts, the      *)
(* argument list has at least max(N)+1 entries, N ranging over the         *)
(* distinct placeholder indices of the macro's templates; so no template   *)
(* whose indices the extractor saw fails to render for a missing argument. *)
C2_ArgsCoverMaxIndex ==
    /\ (pc = "render" /\ arg_indices # <<>>) =>
           Len(args) >= arg_indices[Len(arg_indices)] + 1
    /\ (pc = "exit" /\ outcome = "missing_argument") =>
           LET t == macro.commands[Len(commands_to_execute) + 1]
           IN  HasNonIntegerField(t)

(* C3.  The exit status is 0 when the run succeeds, the sub-process's exit *)
(* code when the compound command of direct mode exits non-zero, and 1     *)
(* when the document is empty, the keybind or the sanitized macro name is  *)
(* not found, a selector returns no selection, or a template fails to      *)
(* render for a missing argument.                                          *)
C3_ExitStatus ==
    pc = "exit" =>
        /\ outcome = "success" => exit_code = 0
        /\ outcome = "command_failed" =>
               /\ returncode # 0
               /\ exit_code = returncode
               /\ ~shell /\ Len(spawned) = 1
        /\ outcome \in {"no_macros", "keybind_not_found", "macro_not_found",
                        "no_selection", "missing_argument"} => exit_code = 1
        /\ data = EmptyDocument => outcome = "no_macros" /\ exit_code = 1
        /\ (data # EmptyDocument /\ keybind # <<>> /\ ~HasKey(data, keybind)) =>
               outcome = "keybind_not_found" /\ exit_code = 1
        /\ (spawned # <<>> /\ returncode # 0) => exit_code = returncode
        /\ (spawned # <<>> /\ returncode = 0) => exit_code = 0

C3_CommandFailureReached ==
    pc = "exit" /\ outcome = "command_failed" /\ returncode = 2 /\ exit_code = 2

(* C4.  In a run started with --shell every diagnostic written to the      *)
(* primary output stream on an abort path is in echo form and never        *)
(* decorated markup; in a run without --shell the diagnostics are          *)
(* decorated and never echo lines.                                         *)
C4_DiagnosticsMatchMode ==
    (pc = "exit" /\ outcome \in DiagnosedOutcomes) =>
        LET diagnostic == stdout[Len(stdout)]
        IN  IF shell
            THEN IsEchoForm(diagnostic) /\ ~IsDecorated(diagnostic)
            ELSE IsDecorated(diagnostic) /\ ~IsEchoForm(diagnostic)

(* C5.  When a template fails to render because it references an index    *)
(* beyond the final argument list, the run aborts with nothing executed:   *)
(* no sub-process is spawned and no resolved command is written, also for  *)
(* the templates rendered before the failing one; the diagnostic names     *)
(* the failing template.                                                   *)
C5_NoPartialExecution ==
    /\ (pc = "exit" /\ outcome = "missing_argument") =>
           LET t == macro.commands[Len(commands_to_execute) + 1]
               diagnostic == stdout[Len(stdout)]
           IN  /\ spawned = <<>>
               /\ Contains(t, diagnostic)
               /\ shell => stdout = <<diagnostic>>
               /\ \A k \in 1..Len(commands_to_execute) :
                      \A i \in 1..Len(stdout) :
                          ~Contains(commands_to_execute[k], stdout[i])
    /\ (PastResolution /\ \E n \in IndexSet(macro.commands) : n >= Len(args)) =>
           /\ spawned = <<>>
           /\ \A i \in 1..Len(stdout) : shell => IsEchoForm(stdout[i])
           /\ pc = "exit" => outcome = "missing_argument"

C5_AbortAfterRenderedTemplate ==
    /\ pc = "exit"
    /\ outcome = "missing_argument"
    /\ Len(commands_to_execute) >= 1

(* C6.  In direct mode a run that reaches dispatch with a non-empty        *)
(* command list spawns exactly one sub-process, whose command string is    *)
(* the resolved commands in template order joined by " && "; no run        *)
(* spawns more than one, and a run that aborts earlier or has no command   *)
(* spawns none.                                                            *)
C6_OneCompoundSubprocess ==
    /\ Len(spawned) <= 1
    /\ (~shell /\ macro.commands # <<>> /\ (pc = "subprocess" \/ Dispatched)) =>
           spawned = << AndThen([k \in 1..Len(macro.commands) |-> Rendered(k)]) >>
    /\ (pc = "exit" /\ ~(~shell /\ macro.commands # <<>> /\ Dispatched)) =>
           spawned = <<>>

C6_TwoCommandsSpawnedOnce ==
    /\ pc = "exit"
    /\ ~shell
    /\ Len(commands_to_execute) = 2
    /\ Len(spawned) = 1

(* C7.  Argument resolution prompts max(0, R - S) times, R the number of   *)
(* distinct required indices and S the number of supplied arguments; the   *)
(* k-th prompt is labelled with the required index at position S + k of    *)
(* the ascending required list and its value fills the next slot; the      *)
(* loop ends with max(S, R) arguments, and with S >= R nothing is asked.   *)
C7_PromptsByRequiredIndex ==
    LET required == Sorted(IndexSet(macro.commands))
        R == Len(required)
        S == Len(supplied)
        asked == Len(prompts)
    IN  /\ asked <= Max(0, R - S)
        /\ \A k \in 1..asked : prompts[k] = required[S + k]
        /\ SubSeq(args, 1, S) = supplied
        /\ Len(args) = IF pc = "prompt" THEN S + asked - 1 ELSE
                       IF pc = "exit" /\ outcome = "prompt_aborted" THEN S + asked - 1
                       ELSE S + asked
        /\ PastResolution =>
               /\ asked = Max(0, R - S)
               /\ Len(args) = Max(S, R)
        /\ (PastResolution /\ macro.commands = <<<<"e","c","h","o"," ","{","0","}">>, <<"t","o","u","c","h"," ","{","1","}",".","t","x","t">>>>
                /\ S = 1) =>
               prompts = <<1>> /\ Len(args) = 2

C7_GapPromptedZeroThenTwo ==
    /\ PastResolution
    /\ supplied = <<>>
    /\ prompts = <<0, 2>>
    /\ Len(args) = 2

C9_NonIntegerBracesAreLiteral ==
    (PastResolution /\ macro.commands # <<>>
        /\ \A k \in 1..Len(macro.commands) :
               HasNonIntegerField(macro.commands[k])
               /\ HasNoIntegerField(macro.commands[k])) =>
        /\ arg_indices = <<>>
        /\ prompts = <<>>
        /\ pc = "exit" =>
               /\ outcome \in {"success", "command_failed"}
               /\ commands_to_execute = macro.commands

(* C10.  sanitize_name returns, for every input string, a string made only *)
(* of lower-case ASCII letters, digits and hyphens, and sanitizing the     *)
(* result again returns it unchanged.                                      *)
C10_SanitizeIdempotent ==
    /\ pc \in {"sanitized", "sanitized_twice"} =>
           \A i \in 1..Len(sn_out) :
               sn_out[i] \in Range(LowerCase) \cup Range(DigitChars) \cup {"-"}
    /\ pc = "sanitized_twice" => sn_twice = sn_out

C10_HyphensKept ==
    /\ pc = "sanitized_twice"
    /\ sn_in = <<"A","_","-">>
    /\ sn_out = <<"a","-","-">>
    /\ sn_twice = <<"a","-","-">>

(* C11.  The output-mode flag is decided once at the start of run_macro    *)
(* from --shell and equals that value at every later point of the run,     *)
(* the selectors and the argument prompts included.                        *)
C11_FlagNeverFlips ==
    pc \in {"keybind", "keybind_select", "check_keybind", "name", "macro_select",
            "lookup", "resolve", "prompt", "render", "dispatch", "subprocess",
            "exit"} =>
        SHELL_OUTPUT_MODE = shell

\* a keybind selector, a macro selector or an argument prompt is showing
Interacting == pc \in {"keybind_select", "macro_select", "prompt"}

(* C11, amended.  After the start of run_macro the flag equals --shell at  *)
(* every point except while a selector or an argument prompt is showing:   *)
(* there it is False and the --shell value is kept in                      *)
(* _temp_shell_output_mode; it is restored when the interaction ends, also *)
(* when the selector raises or the prompt is interrupted.                  *)
C11_FlagRestoredAfterInteraction ==
    /\ (pc \in {"keybind", "check_keybind", "name", "lookup", "resolve", "render",
                "dispatch", "subprocess", "exit"}) => SHELL_OUTPUT_MODE = shell
    /\ Interacting => (SHELL_OUTPUT_MODE = FALSE /\ temp_mode = shell)

C11_RestoredAfterSelectorRaised ==
    /\ pc = "exit"
    /\ outcome = "no_selection"
    /\ keybind = <<>>
    /\ shell
    /\ SHELL_OUTPUT_MODE

\* no two macros of one keybind have the same name
UniqueNames(d) ==
    \A k \in 1..Len(d) :
        \A i, j \in 1..Len(d[k].macros) :
            d[k].macros[i].name = d[k].macros[j].name => i = j

\* the last command was a macros add whose keybind the loaded document lacks,
\* or whose sanitized name a macro of that keybind already has
MacrosAddMustBeRefused ==
    /\ op = "macros_add"
    /\ \/ ~HasKey(data_before, keybind)
       \/ MacroFound(MacrosOf(data_before, keybind), sanitize_name(name))

(* C12.  From the empty document, after any sequence of keybinds add,      *)
(* keybinds remove and macros add, accepted or refused, the macro names of *)
(* each keybind are unique; a macros add whose sanitized name the keybind  *)
(* already has, or whose keybind is missing, ends with a failure status    *)
(* and leaves the stored document as it was loaded.                        *)
C12_NamesUniquePerKeybind ==
    /\ UniqueNames(data)
    /\ MacrosAddMustBeRefused =>
           /\ outcome \in {"aborted", "error"}
           /\ exit_code = 1
           /\ data = data_before

C12_DuplicateAfterSanitizingRefused ==
    /\ op = "macros_add"
    /\ keybind = <<"g">>
    /\ name = <<"A">>
    /\ HasKey(data_before, <<"g">>)
    /\ MacroFound(MacrosOf(data_before, <<"g">>), <<"a">>)
    /\ outcome = "aborted"
    /\ data = data_before
    /\ \E k \in 1..Len(data) : Len(data[k].macros) = 2

====
